---- MODULE Spec2Model ----
(***************************************************************************)
(* Turf booking application (src/turf_chatot.py): the slots and bookings   *)
(* tables and the operations that read and write them.                     *)
(*                                                                         *)
(* A Slot row is a record; its slot_id is its position in the sequence     *)
(* slots (integer primary key, rows are never deleted).  time(h, 0) is     *)
(* represented by the hour h.  The bookings table is the sequence of its   *)
(* rows in booking_id order; a new row's booking_id is the largest one     *)
(* present plus one (an INTEGER PRIMARY KEY of SQLite without the          *)
(* AUTOINCREMENT keyword), so an insert appends.                           *)
(*                                                                         *)
(* Spec   : sequential histories, every operation runs to completion.      *)
(* SpecPage : sequential histories whose bookings are made through the     *)
(*          Book a Slot page with a date's whole selection.                *)
(* SpecConc : two script runs, each with its own session, interleaved at   *)
(*          the statements of book_slot and generate_slots_for_date.       *)
(* SpecNotify : one script run, executed statement by statement, with the   *)
(*          arguments of its book_slot calls recorded.                     *)
(* SpecUsers : histories of register_user and authenticate_user on the     *)
(*          users table.                                                   *)
(***************************************************************************)
EXTENDS Integers, Sequences, FiniteSets, TLC

VARIABLES
    slots,      \* table slots: Seq of [start_time, end_time, date, availability]
    bookings,   \* table bookings: Seq of [booking_id, user_id, slot_id]
    last,       \* the last completed operation: [op, args, ret] (with caller
                \* for a cancel and the messages sent for a book;
                \* [op, args, user] for a login)
    blocked,    \* history: slot ids the owner has applied Block Slot to
    trip,       \* history: a single-slot book and the cancel that follows it
    nops,       \* history: the number of operations run so far
    proc,       \* SpecConc: each script run's position and local variables
    lock,       \* SpecConc: the run holding SQLite's write lock, 0 when free
    users       \* table users: Seq of [user_id, name, email, phone, password, role]

vars == <<slots, bookings, last, blocked, trip, nops, proc, lock, users>>

(***************************************************************************)
(* Bounds and program constants                                            *)
(***************************************************************************)
HoursPerDay == 24

\* Longest slot_ids list of one book_slot request.
MaxReq == 2

\* Longest sequential history: the number of operations run.
MaxOps == 4

\* Most operations the interleaved script runs start, all together.
MaxConcOps == 3

\* Most operations the script run followed statement by statement starts.
MaxNotifyOps == 4

\* The start hours the modelled users and owner pick.
InputHours == {10}

Users == {"A", "B"}

Dates == {"D1", "D2"}

Procs == {1, 2}

\* A script run that is not inside an operation.  wrote is the number of
\* rows its last operation inserted, sent the messages it wrote; request is
\* history kept by SpecNotify, the slot_ids its book_slot call was given
\* (slot_ids is what the loop has still to process).
IdleProc ==
    [pc |-> "idle", op |-> "", user_id |-> "", slot_ids |-> <<>>,
     successful |-> <<>>, date |-> "", ret |-> <<>>, wrote |-> 0,
     sent |-> <<>>, request |-> <<>>]

\* What the registration and login forms are filled with.
Names == {"N"}

Emails == {"a@x", "b@x"}

Phones == {"P"}

Passwords == {"pw1", "pw2"}

Roles == {"user", "owner"}

\* The salts bcrypt.gensalt() may draw.
Salts == {"s1", "s2"}

(***************************************************************************)
(* Rows and queries                                                        *)
(***************************************************************************)
\* Slot(start_time=time(h,0), end_time=time(e,0), date=d); availability
\* takes the column default.
Slot(h, e, d) ==
    [start_time |-> h, end_time |-> e, date |-> d, availability |-> TRUE]

Booking(bid, u, sid) ==
    [booking_id |-> bid, user_id |-> u, slot_id |-> sid]

NextBookingId(bs) ==
    IF bs = <<>> THEN 1 ELSE bs[Len(bs)].booking_id + 1

Range(f) == {f[i] : i \in DOMAIN f}

\* The rows of a table, as a set.
Rows(t) == {t[i] : i \in DOMAIN t}

\* session.query(Slot).filter(Slot.date == d): the ids of the rows.
SlotIdsOn(s, d) == {i \in 1..Len(s) : s[i].date = d}

\* The ids of the table's rows, in id order.
AllIds(s) == [i \in 1..Len(s) |-> i]

\* session.query(Slot).filter(Slot.date == d).all(): the ids, in id order.
SlotsOn(s, d) == SelectSeq(AllIds(s), LAMBDA i : s[i].date = d)

\* Mutant: the end hour is not reduced modulo 24.
NewDaySlots_NoWrap(d) ==
    [k \in 1..HoursPerDay |-> Slot(k - 1, (k - 1) + 1, d)]

\* The 24 rows one call of generate_slots_for_date adds, in insertion order.
NewDaySlots(d) ==
    [k \in 1..HoursPerDay |-> Slot(k - 1, ((k - 1) + 1) % 24, d)]

\* Mutant: the check counts the available slots of the date only.
DayExists_AvailableOnly(s, d) ==
    \E i \in SlotIdsOn(s, d) : s[i].availability

\* Mutant: the check asks whether the date has its full day of slots.
DayExists_FullDay(s, d) == Cardinality(SlotIdsOn(s, d)) >= HoursPerDay

DayExists(s, d) == SlotIdsOn(s, d) # {}

generate_slots_for_date(s, d) ==
    IF ~DayExists(s, d) THEN s \o NewDaySlots(d) ELSE s

\* The slots table after get_available_slots(d) ...
get_available_slots_db(s, d) == generate_slots_for_date(s, d)

\* ... and the list it returns (slot ids; the rows are those of the table).
get_available_slots(s, d) == SlotsOn(get_available_slots_db(s, d), d)

\* Mutant: the query does not filter on availability.
QueryAvailable_IgnoresAvailability(s, id) == id \in 1..Len(s)

\* session.query(Slot).filter(Slot.slot_id == id, Slot.availability == True).first()
QueryAvailable(s, id) == id \in 1..Len(s) /\ s[id].availability

\* Mutant: the iteration adds the booking and leaves the slot available.
BookIter_NoFlagFlip(db, user_id, slot_id) ==
    IF QueryAvailable(db.slots, slot_id)
    THEN [slots    |-> db.slots,
          bookings |-> Append(db.bookings,
                          Booking(NextBookingId(db.bookings), user_id, slot_id)),
          ok       |-> TRUE]
    ELSE [slots |-> db.slots, bookings |-> db.bookings, ok |-> FALSE]

\* Mutant: the iteration marks the slot and adds no Booking row.
BookIter_NoRow(db, user_id, slot_id) ==
    IF QueryAvailable(db.slots, slot_id)
    THEN [slots    |-> [db.slots EXCEPT ![slot_id].availability = FALSE],
          bookings |-> db.bookings,
          ok       |-> TRUE]
    ELSE [slots |-> db.slots, bookings |-> db.bookings, ok |-> FALSE]

\* One iteration of book_slot's loop on the tables db = [slots, bookings].
BookIter(db, user_id, slot_id) ==
    IF QueryAvailable(db.slots, slot_id)
    THEN [slots    |-> [db.slots EXCEPT ![slot_id].availability = FALSE],
          bookings |-> Append(db.bookings,
                          Booking(NextBookingId(db.bookings), user_id, slot_id)),
          ok       |-> TRUE]
    ELSE [slots |-> db.slots, bookings |-> db.bookings, ok |-> FALSE]

\* Mutant: the loop ends at the first id it cannot book.
RECURSIVE BookLoop_StopsAtSkip(_, _, _, _)
BookLoop_StopsAtSkip(db, user_id, slot_ids, successful) ==
    IF slot_ids = <<>>
    THEN [slots |-> db.slots, bookings |-> db.bookings, ret |-> successful]
    ELSE LET r == BookIter(db, user_id, Head(slot_ids))
         IN  IF r.ok
             THEN BookLoop_StopsAtSkip(r, user_id, Tail(slot_ids),
                                       Append(successful, Head(slot_ids)))
             ELSE [slots |-> db.slots, bookings |-> db.bookings,
                   ret |-> successful]

\* book_slot: the loop over slot_ids and the commit; ret is successful_bookings.
RECURSIVE BookLoop(_, _, _, _)
BookLoop(db, user_id, slot_ids, successful) ==
    IF slot_ids = <<>>
    THEN [slots |-> db.slots, bookings |-> db.bookings, ret |-> successful]
    ELSE LET r == BookIter(db, user_id, Head(slot_ids))
         IN  BookLoop(r, user_id, Tail(slot_ids),
                      IF r.ok THEN Append(successful, Head(slot_ids))
                      ELSE successful)

book_slot(s, bs, user_id, slot_ids) ==
    BookLoop([slots |-> s, bookings |-> bs], user_id, slot_ids, <<>>)

\* The address the owner's copy of every notification is written to.
OwnerAddress == "owner@example.com"

\* Mutant: only the user's message is written.
send_notification_UserOnly(user_id, slot_id) ==
    <<[to |-> user_id, about |-> slot_id, by |-> user_id]>>

\* send_notification(user, slot): the two messages it writes, in order, the
\* first to the email of the user with user_id (line 99), the second to the
\* owner; both are about the slot and name the user.
send_notification(user_id, slot_id) ==
    <<[to |-> user_id, about |-> slot_id, by |-> user_id],
      [to |-> OwnerAddress, about |-> slot_id, by |-> user_id]>>

\* book_slot, lines 98-100: the messages written for successful_bookings.
RECURSIVE NotifyLoop(_, _)
NotifyLoop(user_id, successful) ==
    IF successful = <<>> THEN <<>>
    ELSE send_notification(user_id, Head(successful))
           \o NotifyLoop(user_id, Tail(successful))

\* Mutant: the booking is deleted and the slot stays unavailable.
cancel_booking_KeepsUnavailable(s, bs, booking_id) ==
    LET found == SelectSeq(bs, LAMBDA b : b.booking_id = booking_id)
    IN  IF found # <<>>
        THEN [slots    |-> s,
              bookings |-> SelectSeq(bs, LAMBDA b : b # found[1]),
              ret      |-> TRUE]
        ELSE [slots |-> s, bookings |-> bs, ret |-> FALSE]

\* Mutant: the slot is freed and the booking row is kept.
cancel_booking_KeepsRow(s, bs, booking_id) ==
    LET found == SelectSeq(bs, LAMBDA b : b.booking_id = booking_id)
    IN  IF found # <<>>
        THEN [slots    |-> [s EXCEPT ![found[1].slot_id].availability = TRUE],
              bookings |-> bs,
              ret      |-> TRUE]
        ELSE [slots |-> s, bookings |-> bs, ret |-> FALSE]

\* cancel_booking on the tables; ret is its return value.
cancel_booking(s, bs, booking_id) ==
    LET found == SelectSeq(bs, LAMBDA b : b.booking_id = booking_id)
    IN  IF found # <<>>
        THEN LET booking == found[1]
             IN  [slots    |-> [s EXCEPT ![booking.slot_id].availability = TRUE],
                  bookings |-> SelectSeq(bs, LAMBDA b : b # booking),
                  ret      |-> TRUE]
        ELSE [slots |-> s, bookings |-> bs, ret |-> FALSE]

\* Mutant: the request is refused unless the booking is the caller's.
CancelRequest_OwnBookingOnly(s, bs, caller, booking_id) ==
    IF \E i \in DOMAIN bs :
           bs[i].booking_id = booking_id /\ bs[i].user_id = caller
    THEN cancel_booking(s, bs, booking_id)
    ELSE [slots |-> s, bookings |-> bs, ret |-> FALSE]

\* A cancel request issued by the logged-in user `caller`: cancel_booking
\* receives the booking_id only.
CancelRequest(s, bs, caller, booking_id) ==
    cancel_booking(s, bs, booking_id)

\* session.query(Booking).filter_by(user_id=u).all()
BookingsOf(bs, u) == SelectSeq(bs, LAMBDA b : b.user_id = u)

\* Create Slot: the duplicate check and the insert.
SlotExistsAt(s, d, h) ==
    \E i \in 1..Len(s) : s[i].date = d /\ s[i].start_time = h

\* Mutant: the slot is inserted without the duplicate check.
create_slot_NoCheck(s, d, start_hour) ==
    Append(s, Slot(start_hour, (start_hour + 1) % 24, d))

create_slot(s, d, start_hour) ==
    IF ~SlotExistsAt(s, d, start_hour)
    THEN Append(s, Slot(start_hour, (start_hour + 1) % 24, d))
    ELSE s

\* Block Slot: selected_slot.availability = False.
block_slot(s, id) == [s EXCEPT ![id].availability = FALSE]

(***************************************************************************)
(* The users table                                                         *)
(***************************************************************************)
\* bcrypt.hashpw(password, salt): the stored string carries the salt and the
\* digest of the password under that salt.
hash_password(password, salt) ==
    [salt |-> salt, digest |-> <<salt, password>>]

\* bcrypt.checkpw: hashes the password with the salt of the stored string
\* and compares.
check_password(password, hashed) ==
    hash_password(password, hashed.salt) = hashed

User(id, name, email, phone, password, role) ==
    [user_id |-> id, name |-> name, email |-> email, phone |-> phone,
     password |-> password, role |-> role]

\* session.query(User).filter_by(email=email).all(), in user_id order.
UsersByEmail(us, email) == SelectSeq(us, LAMBDA u : u.email = email)

\* Mutant: the email column has no UNIQUE constraint, the insert succeeds.
register_user_NoUnique(us, name, email, phone, password, role, salt) ==
    [users |-> Append(us, User(Len(us) + 1, name, email, phone,
                               hash_password(password, salt), role)),
     ret   |-> TRUE]

\* register_user on the users table; salt is the value bcrypt.gensalt()
\* draws.  The INSERT violates the UNIQUE constraint of users.email when a
\* row has the email: IntegrityError, rollback, False.
register_user(us, name, email, phone, password, role, salt) ==
    IF UsersByEmail(us, email) = <<>>
    THEN [users |-> Append(us, User(Len(us) + 1, name, email, phone,
                                    hash_password(password, salt), role)),
          ret   |-> TRUE]
    ELSE [users |-> us, ret |-> FALSE]

\* The value authenticate_user returns when it returns no user.
None == <<>>

\* Mutant: the password is not compared.
authenticate_user_EmailOnly(us, email, password) ==
    LET found == UsersByEmail(us, email)
    IN  IF found # <<>> THEN <<found[1]>> ELSE None

\* authenticate_user: <<user>> for the user it returns, None otherwise.
authenticate_user(us, email, password) ==
    LET found == UsersByEmail(us, email)
    IN  IF found # <<>> /\ check_password(password, found[1].password)
        THEN <<found[1]>>
        ELSE None

(***************************************************************************)
(* Inputs                                                                  *)
(***************************************************************************)
\* Slot ids a request may carry: the slots at the picked hours, and one id
\* that no row has.
InputSlotIds(s) ==
    {i \in 1..Len(s) : s[i].start_time \in InputHours} \cup {Len(s) + 1}

\* The slot_ids lists of a book_slot call: every list of at most MaxReq
\* input ids (repeated ids included).
Requests(s) ==
    UNION {[1..n -> InputSlotIds(s)] : n \in 1..MaxReq}

\* Book a Slot page, lines 290-292: the ids of the date's available slots
\* among the rows get_available_slots returned, in id order.
AllAvailableOn(s, d) ==
    SelectSeq(SlotsOn(s, d), LAMBDA i : s[i].availability)

\* Booking ids a cancel may carry: those of the bookings of the input
\* slots, the one cancelled last, and one that no row has had yet.
InputBookingIds(s, bs, l) ==
    {b.booking_id : b \in {c \in Rows(bs) : c.slot_id \in InputSlotIds(s)}}
      \cup (IF l.op = "cancel" THEN {l.args[1]} ELSE {})
      \cup {NextBookingId(bs)}

NoTrip ==
    [stage |-> "none", slots0 |-> <<>>, bookings0 |-> <<>>,
     user_id |-> "", slot_id |-> 0, booking_id |-> 0]

(***************************************************************************)
(* Sequential operations                                                   *)
(***************************************************************************)
\* One more operation of the history.
Tick == nops < MaxOps /\ nops' = nops + 1

Init ==
    /\ slots = <<>>
    /\ bookings = <<>>
    /\ last = [op |-> "init", args |-> <<>>, ret |-> <<>>]
    /\ blocked = {}
    /\ trip = NoTrip
    /\ nops = 0
    /\ proc = [p \in Procs |-> IdleProc]
    /\ lock = 0
    /\ users = <<>>

EnsureDayGenerated(d) ==
    /\ Tick
    /\ slots' = generate_slots_for_date(slots, d)
    /\ last' = [op |-> "ensure_day_generated", args |-> <<d>>, ret |-> <<>>]
    /\ trip' = NoTrip
    /\ UNCHANGED <<users, bookings, blocked, proc, lock>>

ListSlots(d) ==
    /\ Tick
    /\ slots' = get_available_slots_db(slots, d)
    /\ last' = [op |-> "list_slots", args |-> <<d>>,
                ret |-> get_available_slots(slots, d)]
    /\ trip' = NoTrip
    /\ UNCHANGED <<users, bookings, blocked, proc, lock>>

CreateSlot(d, h) ==
    /\ Tick
    /\ slots' = create_slot(slots, d, h)
    /\ last' = [op |-> "create_slot", args |-> <<d, h>>, ret |-> <<>>]
    /\ trip' = NoTrip
    /\ UNCHANGED <<users, bookings, blocked, proc, lock>>

BlockSlot(d, id) ==
    /\ Tick
    /\ id \in SlotIdsOn(slots, d)
    /\ slots' = block_slot(slots, id)
    /\ blocked' = blocked \cup {id}
    /\ last' = [op |-> "block_slot", args |-> <<id>>, ret |-> <<>>]
    /\ trip' = NoTrip
    /\ UNCHANGED <<users, bookings, proc, lock>>

Book(u, ids) ==
    LET r == book_slot(slots, bookings, u, ids)
    IN  /\ Tick
        /\ slots' = r.slots
        /\ bookings' = r.bookings
        /\ last' = [op |-> "book", args |-> <<u, ids>>, ret |-> r.ret,
                    sent |-> NotifyLoop(u, r.ret)]
        /\ trip' = IF Len(ids) = 1 /\ r.ret = ids
                   THEN [stage |-> "booked", slots0 |-> slots,
                         bookings0 |-> bookings, user_id |-> u,
                         slot_id |-> ids[1],
                         booking_id |-> NextBookingId(bookings)]
                   ELSE NoTrip
        /\ UNCHANGED <<users, blocked, proc, lock>>

\* caller is the logged-in user who issued the request.
Cancel(u, bid) ==
    LET r == CancelRequest(slots, bookings, u, bid)
    IN  /\ Tick
        /\ slots' = r.slots
        /\ bookings' = r.bookings
        /\ last' = [op |-> "cancel", args |-> <<bid>>, ret |-> r.ret,
                    caller |-> u]
        /\ trip' = IF trip.stage = "booked" /\ trip.booking_id = bid
                   THEN [trip EXCEPT !.stage = "cancelled"]
                   ELSE NoTrip
        /\ UNCHANGED <<users, blocked, proc, lock>>

Next ==
    \/ \E d \in Dates : EnsureDayGenerated(d)
    \/ \E d \in Dates : ListSlots(d)
    \/ \E d \in Dates, h \in InputHours : CreateSlot(d, h)
    \/ \E d \in Dates, id \in InputSlotIds(slots) : BlockSlot(d, id)
    \/ \E u \in Users, ids \in Requests(slots) : Book(u, ids)
    \/ \E u \in Users, bid \in InputBookingIds(slots, bookings, last) :
          Cancel(u, bid)

Spec == Init /\ [][Next]_vars

\* The Book a Slot page for date d with every option selected and Book Now
\* pressed: get_available_slots(d), then book_slot on all the available
\* slots it returned (the page offers no button when there is none).
BookPage(u, d) ==
    LET s1  == get_available_slots_db(slots, d)
        ids == AllAvailableOn(s1, d)
        r   == book_slot(s1, bookings, u, ids)
    IN  /\ Tick
        /\ ids # <<>>
        /\ slots' = r.slots
        /\ bookings' = r.bookings
        /\ last' = [op |-> "book_page", args |-> <<d, u>>, ret |-> r.ret,
                    sent |-> NotifyLoop(u, r.ret)]
        /\ trip' = NoTrip
        /\ UNCHANGED <<users, blocked, proc, lock>>

\* Sequential histories in which users book through the page's whole-date
\* selection.
NextPage ==
    \/ \E d \in Dates : EnsureDayGenerated(d)
    \/ \E d \in Dates : ListSlots(d)
    \/ \E d \in Dates, h \in InputHours : CreateSlot(d, h)
    \/ \E d \in Dates, id \in InputSlotIds(slots) : BlockSlot(d, id)
    \/ \E u \in Users, d \in Dates : BookPage(u, d)
    \/ \E u \in Users, bid \in InputBookingIds(slots, bookings, last) :
          Cancel(u, bid)

SpecPage == Init /\ [][NextPage]_vars

(***************************************************************************)
(* Interleaved script runs.  Every run has its own Session (the script is  *)
(* executed anew, line 12), so a run's unflushed and uncommitted changes   *)
(* are seen by its own queries only.  A query autoflushes: once a run has  *)
(* pending changes its next query writes them inside its transaction and   *)
(* takes SQLite's write lock, kept until session.commit(); a run that      *)
(* needs the lock while another holds it waits.                            *)
(***************************************************************************)
\* One more operation started by a script run.
CTick == nops < MaxConcOps /\ nops' = nops + 1

\* Line 91 as run by a session whose uncommitted bookings are `pending`.
VisibleAvailable(s, pending, id) ==
    QueryAvailable(s, id) /\ id \notin Range(pending)

\* Mutant: the commit writes a slot and its booking only while the
\* committed row is still available (a conditional update).
RECURSIVE CommitBookings_Conditional(_, _, _)
CommitBookings_Conditional(db, user_id, successful) ==
    IF successful = <<>> THEN db
    ELSE LET sid == Head(successful)
         IN  CommitBookings_Conditional(
                 IF db.slots[sid].availability
                 THEN [slots    |-> [db.slots EXCEPT ![sid].availability = FALSE],
                       bookings |-> Append(db.bookings,
                           Booking(NextBookingId(db.bookings), user_id, sid))]
                 ELSE db,
                 user_id, Tail(successful))

\* session.commit() of book_slot: the UPDATE of each slot the loop marked
\* and the INSERT of each Booking it added, in the order of the loop.
RECURSIVE CommitBookings(_, _, _)
CommitBookings(db, user_id, successful) ==
    IF successful = <<>> THEN db
    ELSE LET sid == Head(successful)
         IN  CommitBookings(
                 [slots    |-> [db.slots EXCEPT ![sid].availability = FALSE],
                  bookings |-> Append(db.bookings,
                      Booking(NextBookingId(db.bookings), user_id, sid))],
                 user_id, Tail(successful))

\* Mutant: the commit inserts only when the date still has no slot.
CommitDay_Rechecks(s, d) == generate_slots_for_date(s, d)

\* session.commit() of generate_slots_for_date: the 24 pending rows.
CommitDay(s, d) == s \o NewDaySlots(d)

\* generate_slots_for_date, line 75: the check.
CGenCheck(p, d) ==
    /\ proc[p].pc = "idle"
    /\ CTick
    /\ proc' = [proc EXCEPT ![p] =
                 [IdleProc EXCEPT !.op = "generate", !.date = d,
                    !.pc = IF ~DayExists(slots, d) THEN "gen_insert" ELSE "idle"]]
    /\ UNCHANGED <<users, slots, bookings, last, blocked, trip, lock>>

\* generate_slots_for_date, lines 76-82: the adds and the commit.
CGenInsert(p) ==
    /\ proc[p].pc = "gen_insert"
    /\ lock = 0
    /\ slots' = CommitDay(slots, proc[p].date)
    /\ proc' = [proc EXCEPT ![p].pc = "idle", ![p].wrote = HoursPerDay]
    /\ UNCHANGED <<users, bookings, last, blocked, trip, nops, lock>>

\* book_slot, line 89.
CBookBegin(p, u, ids) ==
    /\ proc[p].pc = "idle"
    /\ CTick
    /\ proc' = [proc EXCEPT ![p] =
                 [IdleProc EXCEPT !.op = "book", !.pc = "book_loop",
                    !.user_id = u, !.slot_ids = ids]]
    /\ UNCHANGED <<users, slots, bookings, last, blocked, trip, lock>>

\* book_slot, lines 90-96: one iteration of the loop.
CBookIter(p) ==
    LET me    == proc[p]
        id    == Head(me.slot_ids)
        dirty == me.successful # <<>>
    IN  /\ me.pc = "book_loop"
        /\ me.slot_ids # <<>>
        /\ dirty => lock \in {0, p}
        /\ lock' = IF dirty THEN p ELSE lock
        /\ proc' = [proc EXCEPT
                      ![p].slot_ids = Tail(me.slot_ids),
                      ![p].successful =
                          IF VisibleAvailable(slots, me.successful, id)
                          THEN Append(me.successful, id)
                          ELSE me.successful]
        /\ UNCHANGED <<users, slots, bookings, last, blocked, trip, nops>>

\* book_slot, line 97: the commit.
CBookCommit(p) ==
    LET me    == proc[p]
        dirty == me.successful # <<>>
        db    == CommitBookings([slots |-> slots, bookings |-> bookings],
                                me.user_id, me.successful)
    IN  /\ me.pc = "book_loop"
        /\ me.slot_ids = <<>>
        /\ dirty => lock \in {0, p}
        /\ lock' = IF dirty THEN 0 ELSE lock
        /\ slots' = db.slots
        /\ bookings' = db.bookings
        /\ proc' = [proc EXCEPT ![p].pc = "book_notify",
                                ![p].wrote = Len(me.successful)]
        /\ UNCHANGED <<users, last, blocked, trip, nops>>

\* book_slot, lines 98-101: the notifications and the return.
CBookNotify(p) ==
    LET me == proc[p]
    IN  /\ me.pc = "book_notify"
        /\ proc' = [proc EXCEPT ![p].pc = "idle", ![p].ret = me.successful,
                       ![p].sent = NotifyLoop(me.user_id, me.successful)]
        /\ UNCHANGED <<users, slots, bookings, last, blocked, trip, nops, lock>>

NextConc ==
    \/ \E p \in Procs, d \in Dates : CGenCheck(p, d)
    \/ \E p \in Procs : CGenInsert(p)
    \/ \E p \in Procs, u \in Users, ids \in Requests(slots) : CBookBegin(p, u, ids)
    \/ \E p \in Procs : CBookIter(p)
    \/ \E p \in Procs : CBookCommit(p)
    \/ \E p \in Procs : CBookNotify(p)

SpecConc == Init /\ [][NextConc]_vars

\* The script run SpecNotify follows.
NotifyRun == 1

\* One more operation started by the run.
NTick == nops < MaxNotifyOps /\ nops' = nops + 1

\* generate_slots_for_date, line 75: the check.
NGenCheck(p, d) ==
    /\ proc[p].pc = "idle"
    /\ NTick
    /\ proc' = [proc EXCEPT ![p] =
                 [IdleProc EXCEPT !.op = "generate", !.date = d,
                    !.pc = IF ~DayExists(slots, d) THEN "gen_insert" ELSE "idle"]]
    /\ UNCHANGED <<users, slots, bookings, last, blocked, trip, lock>>

\* book_slot, line 89, recording the arguments of the call.
NBookBegin(p, u, ids) ==
    /\ proc[p].pc = "idle"
    /\ NTick
    /\ proc' = [proc EXCEPT ![p] =
                 [IdleProc EXCEPT !.op = "book", !.pc = "book_loop",
                    !.user_id = u, !.slot_ids = ids, !.request = ids]]
    /\ UNCHANGED <<users, slots, bookings, last, blocked, trip, lock>>

\* One script run, executed statement by statement.
NextNotify ==
    \/ \E d \in Dates : NGenCheck(NotifyRun, d)
    \/ CGenInsert(NotifyRun)
    \/ \E u \in Users, ids \in Requests(slots) : NBookBegin(NotifyRun, u, ids)
    \/ CBookIter(NotifyRun)
    \/ CBookCommit(NotifyRun)
    \/ CBookNotify(NotifyRun)

SpecNotify == Init /\ [][NextNotify]_vars

(***************************************************************************)
(* Registration and login                                                  *)
(***************************************************************************)
Register(name, email, phone, password, role, salt) ==
    LET r == register_user(users, name, email, phone, password, role, salt)
    IN  /\ users' = r.users
        /\ last' = [op |-> "register",
                    args |-> <<name, email, phone, password, role>>,
                    ret |-> r.ret]
        /\ UNCHANGED <<slots, bookings, blocked, trip, nops, proc, lock>>

\* The login form; user is what authenticate_user returned.
Authenticate(email, password) ==
    /\ last' = [op |-> "authenticate", args |-> <<email, password>>,
                user |-> authenticate_user(users, email, password)]
    /\ UNCHANGED <<slots, bookings, blocked, trip, nops, proc, lock, users>>

NextUsers ==
    \/ \E name \in Names, email \in Emails, phone \in Phones,
          password \in Passwords, role \in Roles, salt \in Salts :
            Register(name, email, phone, password, role, salt)
    \/ \E email \in Emails, password \in Passwords :
            Authenticate(email, password)

SpecUsers == Init /\ [][NextUsers]_vars

(***************************************************************************)
(* Properties.  Every operation of Spec sets last, so last'.op names the   *)
(* operation a step ran, and last'.args its arguments.                     *)
(***************************************************************************)
\* Slot id has a row and the row's availability is true.
IsAvailable(s, id) == id \in 1..Len(s) /\ s[id].availability

\* The number of Booking rows that reference slot sid.
RefCount(bs, sid) == Cardinality({i \in DOMAIN bs : bs[i].slot_id = sid})

\* The step removed and changed no Booking row: the table it leaves starts
\* with the table it found.
RowsKept == SubSeq(bookings', 1, Len(bookings)) = bookings

\* The positions, in the table the step leaves, of the rows it added.
AddedAt == (Len(bookings) + 1)..Len(bookings')

AtMostOneBookingPerSlot(bs) ==
    \A i, j \in DOMAIN bs : bs[i].slot_id = bs[j].slot_id => i = j

\* C1: in every sequential history at most one Booking row references a
\* slot_id; a book removes no row, and every row it adds references a slot
\* that existed and was available before the call, no two of them the same
\* slot (repeated ids in one request included).
C1_AtMostOneBookingPerSlot ==
    [][ /\ AtMostOneBookingPerSlot(bookings')
        /\ last'.op = "book" =>
             /\ RowsKept
             /\ \A k \in AddedAt : IsAvailable(slots, bookings'[k].slot_id)
             /\ \A k, m \in AddedAt :
                  bookings'[k].slot_id = bookings'[m].slot_id => k = m
      ]_vars

\* A request that names one slot twice has booked it once.
C1_Witness ==
    /\ last.op = "book"
    /\ Len(last.args[2]) = 2
    /\ last.args[2][1] = last.args[2][2]
    /\ last.ret = <<last.args[2][1]>>
    /\ RefCount(bookings, last.args[2][1]) = 1

\* C2: book(user, ids) on an available slot makes it unavailable, adds exactly
\* one Booking row (user, slot) and returns the slot; a book request for a
\* slot that a Booking row still references, by any user, leaves the slot out
\* of its result and adds no row for it.
C2_BookThenRebook ==
    [][ last'.op = "book" =>
          LET u   == last'.args[1]
              ids == last'.args[2]
          IN  \A k \in DOMAIN ids :
                LET id == ids[k]
                IN  /\ IsAvailable(slots, id) =>
                         /\ ~slots'[id].availability
                         /\ id \in Range(last'.ret)
                         /\ RefCount(bookings', id) = 1
                         /\ \A m \in DOMAIN bookings' :
                              bookings'[m].slot_id = id =>
                                 m \in AddedAt /\ bookings'[m].user_id = u
                    /\ RefCount(bookings, id) > 0 =>
                         /\ id \notin Range(last'.ret)
                         /\ RowsKept
                         /\ \A m \in AddedAt : bookings'[m].slot_id # id
      ]_vars

\* A user asked for a slot another user holds: it is not in the result.
C2_Witness ==
    /\ last.op = "book"
    /\ \E b \in Rows(bookings) :
         /\ b.slot_id \in Range(last.args[2])
         /\ b.user_id # last.args[1]
         /\ b.slot_id \notin Range(last.ret)

\* C3: cancel(booking_id) of an existing booking makes its slot available,
\* deletes the row and returns True; cancel of an id no row has returns False
\* and leaves both tables as they were.
C3_Cancel ==
    [][ last'.op = "cancel" =>
          LET bid   == last'.args[1]
              found == {i \in DOMAIN bookings : bookings[i].booking_id = bid}
          IN  IF found # {}
              THEN /\ last'.ret = TRUE
                   /\ \A i \in found : slots'[bookings[i].slot_id].availability
                   /\ \A m \in DOMAIN bookings' : bookings'[m].booking_id # bid
                   /\ Len(bookings') = Len(bookings) - 1
              ELSE /\ last'.ret = FALSE
                   /\ slots' = slots
                   /\ bookings' = bookings
      ]_vars

\* A cancel succeeded, freed its slot, and other bookings remain.
C3_Witness ==
    /\ last.op = "cancel"
    /\ last.ret = TRUE
    /\ bookings # <<>>
    /\ \E i \in 1..Len(slots) :
         slots[i].availability /\ slots[i].start_time \in InputHours
           /\ RefCount(bookings, i) = 0

\* C4: once Block Slot has been applied to a slot, its availability is never
\* true again.
C4_BlockIsOneWay ==
    \A id \in blocked : ~slots[id].availability

\* The slots of date d that start at hour h.
HourCount(s, d, h) ==
    Cardinality({i \in SlotIdsOn(s, d) : s[i].start_time = h})

\* Run p ran one iteration of book_slot's loop in this step.
IterStep(p) ==
    /\ proc[p].pc = "book_loop"
    /\ proc'[p].pc = "book_loop"
    /\ proc[p].slot_ids # <<>>
    /\ proc'[p].slot_ids = Tail(proc[p].slot_ids)

\* Run p ran book_slot's commit in this step.
CommitStep(p) == proc[p].pc = "book_loop" /\ proc'[p].pc = "book_notify"

\* Run p wrote its notifications and returned from book_slot in this step.
NotifyStep(p) == proc[p].pc = "book_notify" /\ proc'[p].pc = "idle"

\* Both runs have returned from a book_slot call with slot id in the result.
BothReturned(pr, id) ==
    \A p \in Procs :
        pr[p].pc = "idle" /\ pr[p].op = "book" /\ id \in Range(pr[p].ret)

\* C5: when two book() calls for the same available slot interleave, a run's
\* availability check passes on the committed flag whatever the other run has
\* checked and not yet committed; each commit adds a Booking row for every
\* slot the run's checks passed and returns those slots; so once both runs
\* have returned the slot, two Booking rows reference it.
C5_BookingIsRacy ==
    [][ /\ \A p \in Procs :
             /\ IterStep(p) =>
                  LET id == Head(proc[p].slot_ids)
                  IN  (IsAvailable(slots, id)
                         /\ id \notin Range(proc[p].successful))
                      => id \in Range(proc'[p].successful)
             /\ NotifyStep(p) => proc'[p].ret = proc[p].successful
             /\ CommitStep(p) =>
                  /\ proc'[p].successful = proc[p].successful
                  /\ \A id \in Range(proc[p].successful) :
                       RefCount(bookings', id) = RefCount(bookings, id) + 1
        /\ \A id \in 1..Len(slots') :
             BothReturned(proc', id) =>
                RefCount(bookings', id) >= 2
      ]_vars

\* Both runs returned the same slot and two Booking rows reference it.
C5_Witness ==
    \E id \in 1..Len(slots) :
        /\ BothReturned(proc, id)
        /\ RefCount(bookings, id) = 2
        /\ ~slots[id].availability

\* Run p inserted a day's rows and committed in this step.
InsertStep(p) == proc[p].pc = "gen_insert" /\ proc'[p].pc = "idle"

\* Both runs have returned from generate_slots_for_date(d) having inserted.
BothInserted(pr, d) ==
    \A p \in Procs :
        /\ pr[p].pc = "idle" /\ pr[p].op = "generate"
        /\ pr[p].date = d /\ pr[p].wrote = HoursPerDay

\* C6: when two ensure_day_generated(D) calls for a date without slots both
\* run the check before either commits, each inserts its 24 rows, one more
\* for every start hour, so D is left with 48 slots, two for every
\* (date, start hour).
C6_GenerationIsRacy ==
    [][ /\ \A p \in Procs :
             InsertStep(p) =>
                /\ Len(slots') = Len(slots) + 24
                /\ \A h \in 0..23 :
                     HourCount(slots', proc[p].date, h)
                       = HourCount(slots, proc[p].date, h) + 1
        /\ \A d \in Dates :
             /\ (\A p \in Procs :
                    proc'[p].pc = "gen_insert" /\ proc'[p].date = d)
                => SlotIdsOn(slots', d) = {}
             /\ BothInserted(proc', d) =>
                  /\ Cardinality(SlotIdsOn(slots', d)) = 48
                  /\ \A h \in 0..23 : HourCount(slots', d, h) = 2
      ]_vars

\* Both runs inserted for the same date, which now has 48 slots.
C6_Witness ==
    \E d \in Dates :
        /\ BothInserted(proc, d)
        /\ Cardinality(SlotIdsOn(slots, d)) = 48

\* The step ran ensure_day_generated or list_slots.
IsEnsure(l) == l.op \in {"ensure_day_generated", "list_slots"}

\* C7: for a date D without slots, ensure_day_generated(D) followed by
\* list_slots(D) returns exactly 24 slots, the k-th with start hour k-1, end
\* hour k mod 24, date D and availability true (list_slots(D) alone returns
\* the same, and the list_slots after the ensure inserts nothing).
C7_FreshDayHas24Slots ==
    [][ (IsEnsure(last') /\ SlotIdsOn(slots, last'.args[1]) = {}) =>
          LET d  == last'.args[1]
              db == get_available_slots_db(slots', d)
              r  == get_available_slots(slots', d)
          IN  /\ db = slots'
              /\ Len(r) = 24
              /\ \A k \in 1..24 :
                   db[r[k]] = [start_time |-> k - 1, end_time |-> k % 24,
                               date |-> d, availability |-> TRUE]
              /\ last'.op = "list_slots" => last'.ret = r
      ]_vars

\* The second operation of a history was an ensure_day_generated on the
\* second date: it added slots 25..48.
C7_Witness ==
    /\ last.op = "ensure_day_generated"
    /\ nops = 2
    /\ Len(slots) = 48
    /\ SlotIdsOn(slots, last.args[1]) = 25..48

\* C8: ensure_day_generated(D) on a date that has slots inserts and changes
\* nothing, whatever the slots' availability; list_slots(D) returns the
\* slots it returned before (same ids, same rows), 24 of them on a generated
\* date, no two with the same start hour.
C8_EnsureIsIdempotent ==
    [][ (IsEnsure(last') /\ SlotIdsOn(slots, last'.args[1]) # {}) =>
          LET d == last'.args[1]
              r == get_available_slots(slots', d)
          IN  /\ slots' = slots
              /\ get_available_slots_db(slots', d) = slots
              /\ r = SlotsOn(slots, d)
              /\ last'.op = "list_slots" => last'.ret = r
              /\ \A i, j \in Range(r) :
                   slots'[i].start_time = slots'[j].start_time => i = j
              /\ Cardinality(SlotIdsOn(slots, d)) = 24 => Len(r) = 24
      ]_vars

\* ensure_day_generated ran on a generated date whose 24 slots are all
\* unavailable, and the date still has 24 slots.
C8_Witness ==
    /\ last.op = "ensure_day_generated"
    /\ Cardinality(SlotIdsOn(slots, last.args[1])) = 24
    /\ \A i \in SlotIdsOn(slots, last.args[1]) : ~slots[i].availability

\* C9: book(user, ids) returns exactly the requested ids whose slot existed
\* and was available when the id was processed (available before the call and
\* not requested earlier in the list), in request order; every other slot
\* keeps its row, no Booking row is removed, none is added for a slot that is
\* not returned (an id without a slot included), and every returned slot is
\* made unavailable with one new Booking row of the user.
C9_BookPerId ==
    [][ last'.op = "book" =>
          LET u     == last'.args[1]
              ids   == last'.args[2]
              ok(k) == /\ IsAvailable(slots, ids[k])
                       /\ \A j \in 1..(k - 1) : ids[j] # ids[k]
              okpos == SelectSeq([k \in 1..Len(ids) |-> k], ok)
              got   == Range(last'.ret)
          IN  /\ Len(last'.ret) = Len(okpos)
              /\ \A j \in 1..Len(okpos) : last'.ret[j] = ids[okpos[j]]
              /\ Len(slots') = Len(slots)
              /\ \A id \in 1..Len(slots) :
                   id \notin got => slots'[id] = slots[id]
              /\ RowsKept
              /\ \A m \in AddedAt :
                   bookings'[m].slot_id \in got /\ bookings'[m].user_id = u
              /\ \A id \in got :
                   /\ ~slots'[id].availability
                   /\ Cardinality({m \in AddedAt : bookings'[m].slot_id = id}) = 1
      ]_vars

\* A request of an unavailable slot followed by an available one booked the
\* second.
C9_Witness ==
    /\ last.op = "book"
    /\ Len(last.args[2]) = 2
    /\ last.args[2][1] \in 1..Len(slots)
    /\ last.args[2][1] \notin Range(last.ret)
    /\ last.ret = <<last.args[2][2]>>

\* C10: after a user without bookings books the hour-10 slot, the user's
\* booking list has exactly one entry, for the 10:00-11:00 slot; after that
\* booking is cancelled the slot is available, the user's booking list is
\* empty, and both tables are as they were before the book.
C10_BookCancelRoundTrip ==
    /\ (trip.stage = "booked"
          /\ trip.slots0[trip.slot_id].start_time = 10
          /\ BookingsOf(trip.bookings0, trip.user_id) = <<>>) =>
         LET mine == BookingsOf(bookings, trip.user_id)
         IN  /\ Len(mine) = 1
             /\ mine[1].slot_id = trip.slot_id
             /\ slots[mine[1].slot_id].start_time = 10
             /\ slots[mine[1].slot_id].end_time = 11
             /\ ~slots[trip.slot_id].availability
    /\ trip.stage = "cancelled" =>
         /\ slots[trip.slot_id].availability
         /\ BookingsOf(bookings, trip.user_id)
              = BookingsOf(trip.bookings0, trip.user_id)
         /\ slots = trip.slots0
         /\ bookings = trip.bookings0

\* A user booked the hour-10 slot of one of two generated dates and
\* cancelled; the user's booking list is empty.
C10_Witness ==
    /\ trip.stage = "cancelled"
    /\ slots[trip.slot_id].start_time = 10
    /\ Len(slots) = 48
    /\ BookingsOf(bookings, trip.user_id) = <<>>

\* No two rows of the users table have the same email.
EmailsUnique(us) ==
    \A i, j \in DOMAIN us : us[i].email = us[j].email => i = j

\* C11: register with an email that a user already has returns False and
\* leaves the users table as it was; a register that returns True adds one
\* row with that email; after any sequence of registers no two User rows
\* have the same email.
C11_RegisterDuplicateEmail ==
    [][ /\ last'.op = "register" =>
             LET email == last'.args[2]
             IN  IF \E i \in DOMAIN users : users[i].email = email
                 THEN last'.ret = FALSE /\ users' = users
                 ELSE /\ last'.ret = TRUE
                      /\ Len(users') = Len(users) + 1
                      /\ SubSeq(users', 1, Len(users)) = users
                      /\ users'[Len(users')].email = email
        /\ EmailsUnique(users')
      ]_vars

\* With two users registered, a register of one of their emails with a
\* password other than the stored one was refused.
C11_Witness ==
    /\ last.op = "register"
    /\ last.ret = FALSE
    /\ Len(users) = 2
    /\ \E i \in DOMAIN users :
         /\ users[i].email = last.args[2]
         /\ users[i].password.digest[2] # last.args[4]

\* The (date, start hour) pairs of the table's rows: as many as the rows
\* exactly when no two rows share a pair.
SlotKeys(s) == {<<s[i].date, s[i].start_time>> : i \in 1..Len(s)}

\* C12: create_slot(date, start_hour) inserts exactly one slot, available,
\* from start_hour to the next hour, when no slot of the date starts at that
\* hour, and otherwise leaves the table as it was; in every sequential
\* history no two slots have the same date and start hour.
C12_CreateSlotNoDuplicate ==
    [][ /\ last'.op = "create_slot" =>
             LET d == last'.args[1]
                 h == last'.args[2]
             IN  IF HourCount(slots, d, h) = 0
                 THEN /\ Len(slots') = Len(slots) + 1
                      /\ SubSeq(slots', 1, Len(slots)) = slots
                      /\ slots'[Len(slots')] =
                            [start_time |-> h, end_time |-> (h + 1) % 24,
                             date |-> d, availability |-> TRUE]
                 ELSE slots' = slots
        /\ Cardinality(SlotKeys(slots')) = Len(slots')
      ]_vars

\* A create_slot on a generated date inserted nothing, and the other date
\* holds the one slot a create_slot inserted.
C12_Witness ==
    /\ last.op = "create_slot"
    /\ Cardinality(SlotIdsOn(slots, last.args[1])) = 24
    /\ \E e \in Dates :
         /\ e # last.args[1]
         /\ Cardinality(SlotIdsOn(slots, e)) = 1
         /\ \A i \in SlotIdsOn(slots, e) : slots[i].start_time = last.args[2]

\* Some salt makes the stored string hashed out of the password.
IsHashOf(hashed, password) ==
    \E salt \in Salts :
        hashed = [salt |-> salt, digest |-> <<salt, password>>]

\* C13: authenticate(email, password) returns the user's row only when a
\* user has the email and the password is the one its stored hash was made
\* of; for a known email with another password and for an unknown email it
\* returns None; it changes no table.
C13_AuthenticateNoMatch ==
    [][ last'.op = "authenticate" =>
          LET email    == last'.args[1]
              password == last'.args[2]
              known    == {i \in DOMAIN users : users[i].email = email}
              matching == {i \in known : IsHashOf(users[i].password, password)}
          IN  /\ users' = users
              /\ slots' = slots
              /\ bookings' = bookings
              /\ matching # {} => \E i \in matching : last'.user = <<users[i]>>
              /\ matching = {} => last'.user = None
              /\ known = {} => last'.user = None
      ]_vars

\* With one user registered, a login with the user's email and another
\* password returned None.
C13_Witness ==
    /\ last.op = "authenticate"
    /\ last.user = None
    /\ \E i \in DOMAIN users :
         /\ users[i].email = last.args[1]
         /\ users[i].password.digest[2] # last.args[2]

\* With a user registered, a login with an email no user has returned None.
C13_WitnessUnknown ==
    /\ last.op = "authenticate"
    /\ last.user = None
    /\ users # <<>>
    /\ \A i \in DOMAIN users : users[i].email # last.args[1]

\* The number of slots of date d.
DayCount(s, d) == Cardinality(SlotIdsOn(s, d))

\* C14: ensure_day_generated(D) and list_slots(D) change no table whenever
\* a slot of date D exists, whatever made it; on a date that holds only
\* owner-created slots (fewer than 24) list_slots(D) returns exactly those
\* slots, and such a date is never given a generated day: it gains slots
\* one at a time, through create_slot only.
C14_EnsureSkipsOwnerCreatedDay ==
    [][ /\ (IsEnsure(last') /\ DayCount(slots, last'.args[1]) > 0) =>
             /\ slots' = slots
             /\ bookings' = bookings
             /\ last'.op = "list_slots" =>
                  /\ Len(last'.ret) = DayCount(slots, last'.args[1])
                  /\ Range(last'.ret) = SlotIdsOn(slots, last'.args[1])
        /\ \A d \in Dates :
             (DayCount(slots, d) > 0 /\ DayCount(slots, d) < 24) =>
                 /\ DayCount(slots', d) <= DayCount(slots, d) + 1
                 /\ DayCount(slots', d) > DayCount(slots, d) =>
                      last'.op = "create_slot"
                 /\ SlotIdsOn(slots, d) \subseteq SlotIdsOn(slots', d)
                 /\ IsEnsure(last') => SlotIdsOn(slots', d) = SlotIdsOn(slots, d)
      ]_vars

\* The owner created the 10:00 slot of a date without slots; list_slots of
\* that date then returned that one slot and the date still has one slot.
C14_Witness ==
    /\ last.op = "list_slots"
    /\ Len(last.ret) = 1
    /\ DayCount(slots, last.args[1]) = 1
    /\ slots[last.ret[1]].date = last.args[1]
    /\ slots[last.ret[1]].start_time = 10
    /\ slots[last.ret[1]].end_time = 11

\* C15: a cancel request carrying the booking_id of an existing booking
\* returns True, deletes the booking and frees its slot whoever issues it,
\* the booking's user or another one.
C15_CancelIgnoresOwner ==
    [][ last'.op = "cancel" =>
          LET bid    == last'.args[1]
              caller == last'.caller
          IN  \A i \in DOMAIN bookings :
                (bookings[i].booking_id = bid /\ caller \in Users) =>
                    /\ last'.ret = TRUE
                    /\ \A m \in DOMAIN bookings' : bookings'[m] # bookings[i]
                    /\ Len(bookings') = Len(bookings) - 1
                    /\ slots'[bookings[i].slot_id].availability
      ]_vars

\* A user's single-slot booking was cancelled by a request of the other
\* user: the row is gone and the slot is available.
C15_Witness ==
    /\ last.op = "cancel"
    /\ last.ret = TRUE
    /\ trip.stage = "cancelled"
    /\ trip.user_id # last.caller
    /\ trip.booking_id = last.args[1]
    /\ slots[trip.slot_id].availability
    /\ bookings = <<>>

\* C16: book_slot writes its notifications only after its commit, when
\* every slot of its success list is unavailable in the database with a
\* Booking row of the user and the run's transaction is over; it writes, in
\* the order of the success list, one message to the user and one to the
\* owner's fixed address for each slot it returns, and none about any other
\* slot it was asked for.
C16_NotifyAfterCommit ==
    [][ \A p \in Procs :
          /\ proc'[p].sent # proc[p].sent =>
                (proc'[p].sent = <<>> \/ NotifyStep(p))
          /\ NotifyStep(p) =>
                LET me  == proc[p]
                    ret == proc'[p].ret
                    out == proc'[p].sent
                IN  /\ lock # p
                    /\ slots' = slots /\ bookings' = bookings
                    /\ \A k \in DOMAIN ret :
                         /\ ~slots[ret[k]].availability
                         /\ \E i \in DOMAIN bookings :
                              /\ bookings[i].slot_id = ret[k]
                              /\ bookings[i].user_id = me.user_id
                    /\ Len(out) = 2 * Len(ret)
                    /\ \A k \in DOMAIN ret :
                         /\ out[2 * k - 1].to = me.user_id
                         /\ out[2 * k - 1].about = ret[k]
                         /\ out[2 * k].to = "owner@example.com"
                         /\ out[2 * k].about = ret[k]
                         /\ out[2 * k].by = me.user_id
                    /\ \A m \in DOMAIN out : out[m].about \in Range(ret)
                    /\ Range(ret) \subseteq Range(me.request)
                    /\ \A id \in Range(me.request) \ Range(ret) :
                         \A m \in DOMAIN out : out[m].about # id
      ]_vars

\* A call asked for a slot an earlier call had booked and for an available
\* one: it returned the second alone and wrote two messages, both about
\* that slot.
C16_Witness ==
    LET me == proc[NotifyRun]
    IN  /\ me.pc = "idle" /\ me.op = "book"
        /\ Len(me.request) = 2
        /\ me.request[1] \in 1..Len(slots)
        /\ me.request[1] # me.request[2]
        /\ me.ret = <<me.request[2]>>
        /\ Len(me.sent) = 2
        /\ \A m \in DOMAIN me.sent : me.sent[m].about = me.request[2]

\* C17: in every state of a sequential history every Booking row references
\* an existing slot whose availability is false, and every slot whose
\* availability is false and that no Booking row references has had Block
\* Slot applied to it.
C17_BookedOrBlocked ==
    /\ \A i \in DOMAIN bookings :
         /\ bookings[i].slot_id \in 1..Len(slots)
         /\ ~slots[bookings[i].slot_id].availability
    /\ \A id \in 1..Len(slots) :
         (~slots[id].availability /\ RefCount(bookings, id) = 0) =>
             id \in blocked

\* One slot is booked and was never blocked, another is blocked and no
\* Booking row references it.
C17_Witness ==
    /\ \E i \in DOMAIN bookings : bookings[i].slot_id \notin blocked
    /\ \E id \in blocked :
         ~slots[id].availability /\ RefCount(bookings, id) = 0

====
